---------------------------- MODULE Spec2Model ----------------------------
(***************************************************************************)
(* A model of the SPI tester firmware (spitester.cpp): the command state   *)
(* machine, the SSP0 slave transport, the single-transfer capture engine   *)
(* and the periodic-interrupt latency tester, running against an SPI       *)
(* master and the TIMER2 hardware.                                         *)
(*                                                                         *)
(* The firmware is one thread of control (pc) plus the TIMER2 interrupt    *)
(* handler.  Every read of a hardware register the master or the timer can *)
(* change is a step of its own, so the master's edges, elements and        *)
(* chip-select changes interleave with the polling loops at every point    *)
(* the hardware allows.  The master is open loop: it plays a script of     *)
(* transactions chosen in Init and may cut every transaction short.        *)
(***************************************************************************)
EXTENDS Integers, Sequences, FiniteSets, TLC

(***************************************************************************)
(* Bounds of the model.                                                    *)
(***************************************************************************)
\* uint32_t arithmetic is modelled modulo 2^WordBits
WordBits == 8
\* SystemCoreClock, in timer ticks per second (scaled)
SystemCoreClock == 2
\* the free-running timer counter is followed up to this value
MaxTick == 3
\* timer matches followed in one periodic-interrupt session
MaxMatches == 4
\* response structures are FifoDepth + RespExtra bytes long
RespExtra == 2
\* sizeof(AcknowledgeInterruptInfo), scaled
AckInfoSize == 2

Word == 2 ^ WordBits

(***************************************************************************)
(* Program constants.                                                      *)
(***************************************************************************)
\* depth of the SSP0 transmit and receive FIFOs
FifoDepth == 8
\* sizeof(CommandBlock)
CommandBlockSize == 8
\* CR0 reads per poll of the receive FIFO in WaitForCapture
CapturePolls == 11

\* SpiTesterCommand (declared in spitester.h)
CmdGetDeviceInfo == 1
CmdCaptureNextTransfer == 2
CmdGetTransferInfo == 3
CmdStartPeriodicInterrupts == 4
CmdGetPeriodicInterruptInfo == 5
CmdAcknowledgeInterrupt == 6
\* a command code that is none of the above
CmdUnknown == 7

\* ClockMeasurementStatus (declared in spitester.h)
StatusSuccess == "Success"
StatusEdgeNotDetected == "EdgeNotDetected"
StatusOverflow == "Overflow"

\* INVALID_TIME_SINCE_FALLING_EDGE (declared in spitester.h): all ones
INVALID_TIME_SINCE_FALLING_EDGE == Word - 1

Min(a, b) == IF a < b THEN a ELSE b
Max(a, b) == IF a > b THEN a ELSE b

\* uint32_t arithmetic
U32(x) == x % Word
\* conversion of a uint32_t to int (two's complement)
ToInt(x) == IF x >= Word \div 2 THEN x - Word ELSE x

VARIABLES
    \* SSP0 and the chip-select pin
    cs,             \* chip-select is asserted by the master
    rxFifo,         \* receive FIFO: elements [v |-> value, t |-> transaction]
    txCount,        \* number of elements in the transmit FIFO
    \* the master
    mScript,        \* the transactions the master plays (a sequence of frames)
    mTrans,         \* number of transactions begun
    mElems,         \* elements completed in the current transaction
    mMid,           \* an element is on the wire (SCK has fallen, not complete)
    \* TIMER2
    tcr,            \* "OFF" | "RESET" | "ENABLE"
    tc,             \* timer counter
    mcr,            \* match control: subset of {"INT", "RESET", "STOP"}
    mr0,            \* match register 0
    cr0,            \* capture register 0
    ccrFalling,     \* CR0 is loaded on a falling edge of CAP2.0
    emr,            \* external match: subset of {"EM0", "LOW"}
    irPending,      \* match interrupt flag (IR), level-sensitive request
    matches,        \* matches that raised the interrupt flag since it was armed
    \* interrupt controller, pins
    nvicTimer2,     \* TIMER2_IRQn is enabled at the NVIC
    primask,        \* interrupts are disabled at the core (__disable_irq)
    pinMuxed,       \* P0.6 is muxed to MAT2.0
    sckDetect,      \* falling-edge detection enabled for SCK0 (IO0IntEnF)
    sckFlag,        \* falling-edge flag of SCK0 (IO0IntStatF)
    led,            \* activity LED
    \* the firmware
    pc,             \* position of the main line of execution
    wcdRet,         \* where WaitForCsToDeassert returns to
    rc,             \* ReceiveCommand: [i, bytes, trans]
    snd,            \* SspSendImpl: [len, ptr, underrun, trans, early]
    ct,             \* CaptureTransfer locals
    pi,             \* RunPeriodicInterrupts locals
    remainingInterrupts,    \* SpiTester::remainingInterrupts
    transferInfo,   \* this->transferInfo
    interruptInfo   \* this->interruptInfo

sspVars == <<cs, rxFifo, txCount>>
masterVars == <<mScript, mTrans, mElems, mMid>>
timerVars == <<tcr, tc, mcr, mr0, cr0, ccrFalling, emr, irPending, matches>>
sysVars == <<nvicTimer2, primask, pinMuxed, sckDetect, sckFlag, led>>
engineVars == <<ct, pi, remainingInterrupts>>
cacheVars == <<transferInfo, interruptInfo>>
progVars == <<pc, wcdRet, rc, snd>>
vars == <<sspVars, masterVars, timerVars, sysVars, engineVars, cacheVars,
          progVars>>

(***************************************************************************)
(* The master's scripts.  A frame is the sequence of element values of one *)
(* chip-select assertion; the master may stop after any prefix of it.      *)
(***************************************************************************)
Zeros(n) == [k \in 1..n |-> 0]

\* CommandBlock (declared in spitester.h): the command code, then the
\* parameters of the command
FrameCommand(code) == <<code>> \o Zeros(CommandBlockSize - 1)
FrameCapture(bits, send, recv) ==
    <<CmdCaptureNextTransfer, 0, bits, send, recv>> \o Zeros(CommandBlockSize - 5)
FrameStart(duration, frequency) ==
    <<CmdStartPeriodicInterrupts, duration, frequency>>
        \o Zeros(CommandBlockSize - 3)

CommandCode(bytes) == bytes[1]
DataBitLength(bytes) == bytes[3]
SendValue(bytes) == bytes[4]
ReceiveValue(bytes) == bytes[5]
DurationInSeconds(bytes) == bytes[2]
InterruptFrequency(bytes) == bytes[3]

\* StartPeriodicInterrupts::ComputeInterruptCount (declared in spitester.h):
\* the count is DurationInSeconds * InterruptFrequency; FALSE when it does
\* not fit a uint32_t
InterruptCountOf(bytes) == DurationInSeconds(bytes) * InterruptFrequency(bytes)
C10_CountAlwaysFits(bytes) == TRUE
ComputeInterruptCount(bytes) == InterruptCountOf(bytes) < Word

\* a master reading a response clocks zeros
FrameRead == Zeros(FifoDepth + RespExtra)
\* an unknown command followed by a residual byte
FrameUnknown == FrameCommand(CmdUnknown) \o <<0>>

InfoFrames == {FrameCommand(CmdGetDeviceInfo), FrameUnknown, FrameRead}
InfoScripts == {<<a, b, c>> : a \in InfoFrames, b \in InfoFrames, c \in InfoFrames}

\* the data elements the master clocks during a captured transfer
DataFrames == {<<80, 153, 82>>, <<16, 17, 18>>, <<16, 153, 18>>}
CaptureScripts ==
    {<<FrameCapture(8, 16, 80), d>> : d \in DataFrames}
        \cup {<<FrameCapture(8, Word - 1, 0), <<Word - 1, 0, 1>>>>}

\* an acknowledgement round: the command byte, then the master clocks the
\* reply; a long round clocks on until the transmit FIFO has run dry
FrameAck == <<CmdAcknowledgeInterrupt>> \o Zeros(AckInfoSize)
FrameAckLong == <<CmdAcknowledgeInterrupt>> \o Zeros(FifoDepth)
\* a round that does not acknowledge
FrameNak == <<CmdUnknown>>
PeriodicScripts ==
    {<<FrameStart(2, 1), FrameAckLong>>,
     <<FrameStart(2, 1), FrameAck, FrameNak>>,
     <<FrameStart(1, 1), FrameAck, FrameAck>>,
     <<FrameStart(0, 1), FrameAck>>,
     <<FrameStart(2, 1), FrameNak, FrameStart(Word - 1, 2)>>}

\* results are read back with the get commands
GetScripts ==
    {<<FrameCapture(8, 16, 80), <<16>>, FrameCommand(CmdGetTransferInfo)>>,
     <<FrameStart(1, 1), FrameAck,
       FrameCommand(CmdGetPeriodicInterruptInfo)>>,
     <<FrameCommand(CmdGetTransferInfo), FrameRead,
       FrameCommand(CmdGetPeriodicInterruptInfo)>>}

Scripts ==
    InfoScripts \cup CaptureScripts \cup PeriodicScripts \cup GetScripts

(***************************************************************************)
(* State after SpiTester::Init.                                            *)
(***************************************************************************)
DefaultTransferInfo ==
    [ElementCount |-> 0, MismatchIndex |-> 0, ClockActiveTime |-> 0,
     ClockActiveTimeStatus |-> StatusSuccess]

NoStatus ==
    [ArithmeticOverflow |-> FALSE, NotAcknowledged |-> FALSE,
     IncompleteReceive |-> FALSE, IncompleteTransmit |-> FALSE,
     TransmitUnderrun |-> FALSE]

DefaultInterruptInfo ==
    [InterruptCount |-> 0, AlreadyAcknowledgedCount |-> 0,
     AcknowledgedBeforeDeadlineCount |-> 0,
     AcknowledgedAfterDeadlineCount |-> 0, Status |-> NoStatus]

NoReceive == [i |-> 0, bytes |-> <<>>, tags |-> {}]
\* no structure is being sent
NoData == [none |-> TRUE]
NoSend == [len |-> 0, ptr |-> 0, underrun |-> FALSE, csSeen |-> FALSE,
           trans |-> 0, data |-> NoData]
\* this->testerInfo, filled in by Init and never assigned afterwards
TesterInfo == [ClockMeasurementFrequency |-> SystemCoreClock]
NoCapture ==
    [cmd |-> <<>>, dataMask |-> 0, rxValue |-> 0, txValue |-> 0,
     mismatchDetected |-> FALSE, capture |-> 0, captureSet |-> FALSE,
     polls |-> 0, capture1 |-> 0,
     tnf |-> FALSE, info |-> DefaultTransferInfo]
NoPeriodic ==
    [cmd |-> <<>>, period |-> 0, interruptCount |-> 0,
     alreadyAckedCount |-> 0, ackedPastDeadlineCount |-> 0,
     ackedBeforeDeadlineCount |-> 0, lastAckedInterruptCount |-> 0,
     capture |-> 0, difference |-> 0, ackTime |-> 0, ptr |-> 0,
     rounds |-> 0, info |-> DefaultInterruptInfo]

Init ==
    /\ cs = FALSE /\ rxFifo = <<>> /\ txCount = 0
    /\ mScript \in Scripts /\ mTrans = 0 /\ mElems = 0 /\ mMid = FALSE
    \* TimerInit: TCR = 0, EMR |= EM0
    /\ tcr = "OFF" /\ tc = 0 /\ mcr = {} /\ mr0 = 0 /\ cr0 = 0
    /\ ccrFalling = FALSE /\ emr = {"EM0"} /\ irPending = FALSE
    /\ matches = 0
    /\ nvicTimer2 = FALSE /\ primask = FALSE /\ pinMuxed = FALSE
    /\ sckDetect = FALSE /\ sckFlag = FALSE /\ led = TRUE
    /\ pc = "rsm" /\ wcdRet = "rsm"
    /\ rc = NoReceive /\ snd = NoSend /\ ct = NoCapture /\ pi = NoPeriodic
    /\ remainingInterrupts = 0
    /\ transferInfo = DefaultTransferInfo
    /\ interruptInfo = DefaultInterruptInfo

\* the TIMER2 interrupt is requested, enabled at the NVIC and not masked:
\* the handler preempts the main line before its next step
IrqReady == irPending /\ nvicTimer2 /\ ~primask

(***************************************************************************)
(* The master.                                                             *)
(***************************************************************************)
CurFrame == mScript[mTrans]

\* the points at which the firmware waits for the master to begin a transfer
WaitPoints == {"rsm", "snd_waitcs", "ct_waitcs", "pi_wait"}

\* the first SCK edge of an element changes what the firmware can read: the
\* timer latches it, or the GPIO edge flag is armed and not yet set
EdgeVisible == ccrFalling \/ (sckDetect /\ ~sckFlag)

\* the master asserts chip-select: a transaction begins.  The master paces
\* its transactions: it begins one when the firmware is in a loop that waits
\* for it and has emptied the receive FIFO, never while the firmware still
\* works on the previous one
MasterAssert ==
    /\ ~cs
    /\ mTrans < Len(mScript)
    /\ pc \in WaitPoints
    /\ rxFifo = <<>>
    /\ cs' = TRUE
    /\ mTrans' = mTrans + 1
    /\ mElems' = 0
    /\ mMid' = FALSE
    /\ UNCHANGED <<rxFifo, txCount, mScript, timerVars, sysVars, engineVars,
                   cacheVars, progVars>>

\* SCK falls for the first bit of an element: the GPIO edge flag is set and
\* the timer latches CR0 (a step of its own while one of the two is armed)
MasterEdge ==
    /\ cs
    /\ ~mMid
    /\ EdgeVisible
    /\ mElems < Len(CurFrame)
    /\ mMid' = TRUE
    /\ sckFlag' = (sckFlag \/ sckDetect)
    /\ cr0' = IF ccrFalling THEN tc ELSE cr0
    /\ UNCHANGED <<sspVars, mScript, mTrans, mElems, tcr, tc, mcr, mr0,
                   ccrFalling, emr, irPending, matches, nvicTimer2, primask,
                   pinMuxed, sckDetect, led, engineVars, cacheVars, progVars>>

\* the last bit of the element is clocked: SSP0 moves one element out of
\* the transmit FIFO and the received element into the receive FIFO (it is
\* lost when the FIFO is full); the last falling edge is latched in CR0
MasterElem ==
    /\ cs
    /\ mMid \/ (~EdgeVisible /\ mElems < Len(CurFrame))
    /\ mMid' = FALSE
    /\ mElems' = mElems + 1
    /\ rxFifo' = IF Len(rxFifo) < FifoDepth
                 THEN Append(rxFifo, [v |-> CurFrame[mElems + 1], t |-> mTrans])
                 ELSE rxFifo
    /\ txCount' = Max(txCount - 1, 0)
    /\ cr0' = IF ccrFalling THEN tc ELSE cr0
    /\ UNCHANGED <<cs, mScript, mTrans, tcr, tc, mcr, mr0, ccrFalling, emr,
                   irPending, matches, sysVars, engineVars, cacheVars, progVars>>

\* the master deasserts chip-select; an element on the wire is dropped
MasterDeassert ==
    /\ cs
    /\ cs' = FALSE
    /\ mMid' = FALSE
    /\ mElems' = 0
    /\ UNCHANGED <<rxFifo, txCount, mScript, mTrans, timerVars,
                   sysVars, engineVars, cacheVars, progVars>>

Master == MasterAssert \/ MasterEdge \/ MasterElem \/ MasterDeassert

(***************************************************************************)
(* TIMER2.                                                                 *)
(***************************************************************************)
\* the counter reaches MR0: the actions MCR and EMR select
MatchTcr == IF "STOP" \in mcr THEN "OFF" ELSE tcr
MatchTc(n) == IF "RESET" \in mcr THEN 0 ELSE n
MatchEmr == IF "LOW" \in emr THEN emr \ {"EM0"} ELSE emr
MatchIr == irPending \/ ("INT" \in mcr)

\* one tick of the counter.  The counter is followed up to MaxTick, and up
\* to MR0 while a match resets it
TimerTick ==
    /\ tcr = "ENABLE"
    /\ tc < MaxTick \/ ("RESET" \in mcr /\ tc < mr0)
    /\ IF tc + 1 = mr0
       THEN /\ "INT" \in mcr => matches < MaxMatches
            /\ tc' = MatchTc(tc + 1)
            /\ tcr' = MatchTcr
            /\ emr' = MatchEmr
            /\ irPending' = MatchIr
            /\ matches' = IF "INT" \in mcr THEN matches + 1 ELSE matches
       ELSE /\ tc' = tc + 1
            /\ UNCHANGED <<tcr, emr, irPending, matches>>
    /\ UNCHANGED <<sspVars, masterVars, mcr, mr0, cr0, ccrFalling, sysVars,
                   engineVars, cacheVars, progVars>>

\* the counter runs all the way to a stop-on-match at MR0 (the overflow
\* guard of CaptureTransfer)
TimerOverflow ==
    /\ tcr = "ENABLE"
    /\ "STOP" \in mcr
    /\ tc < mr0
    /\ tc' = MatchTc(mr0)
    /\ tcr' = MatchTcr
    /\ emr' = MatchEmr
    /\ irPending' = MatchIr
    /\ UNCHANGED <<sspVars, masterVars, mcr, mr0, cr0, ccrFalling, matches,
                   sysVars,
                   engineVars, cacheVars, progVars>>

(***************************************************************************)
(* SpiTester::WaitForCsToDeassert                                          *)
(*   while (ChipSelectAsserted() || (SR & RNE)) dummy = DR;                *)
(***************************************************************************)
WcdCs ==
    /\ pc = "wcd_cs"
    /\ ~IrqReady
    /\ pc' = IF cs THEN "wcd_read" ELSE "wcd_rne"
    /\ UNCHANGED <<sspVars, masterVars, timerVars, sysVars, engineVars,
                   cacheVars, wcdRet, rc, snd>>

WcdRne ==
    /\ pc = "wcd_rne"
    /\ ~IrqReady
    /\ pc' = IF rxFifo # <<>> THEN "wcd_read" ELSE wcdRet
    /\ UNCHANGED <<sspVars, masterVars, timerVars, sysVars, engineVars,
                   cacheVars, wcdRet, rc, snd>>

WcdRead ==
    /\ pc = "wcd_read"
    /\ ~IrqReady
    /\ rxFifo' = IF rxFifo # <<>> THEN Tail(rxFifo) ELSE rxFifo
    /\ pc' = "wcd_cs"
    /\ UNCHANGED <<cs, txCount, masterVars, timerVars, sysVars, engineVars,
                   cacheVars, wcdRet, rc, snd>>

WaitForCsToDeassert == WcdCs \/ WcdRne \/ WcdRead

(***************************************************************************)
(* SpiTester::ReceiveCommand                                               *)
(***************************************************************************)
\* if (!(SR & RNE)) return false;   (RunStateMachine returns and is called
\* again by the main loop)
RcFirst ==
    /\ pc = "rsm"
    /\ ~IrqReady
    /\ IF rxFifo = <<>>
       THEN UNCHANGED <<pc, rc>>
       ELSE pc' = "rc_loop" /\ rc' = NoReceive
    /\ UNCHANGED <<sspVars, masterVars, timerVars, sysVars, engineVars,
                   cacheVars, wcdRet, snd>>

\* one poll of the receive FIFO: a received element is stored in the
\* command block; after the last one WaitForCsToDeassert is called
RcPoll ==
    /\ pc = "rc_loop"
    /\ ~IrqReady
    /\ IF rxFifo # <<>>
       THEN /\ rxFifo' = Tail(rxFifo)
            /\ rc' = [i |-> rc.i + 1,
                      bytes |-> Append(rc.bytes, Head(rxFifo).v),
                      tags |-> rc.tags \cup {Head(rxFifo).t}]
            /\ IF rc.i + 1 = CommandBlockSize
               THEN pc' = "wcd_cs" /\ wcdRet' = "rc_done"
               ELSE pc' = "rc_loop" /\ UNCHANGED wcdRet
       ELSE pc' = "rc_cs" /\ UNCHANGED <<rxFifo, rc, wcdRet>>
    /\ UNCHANGED <<cs, txCount, masterVars, timerVars, sysVars, engineVars,
                   cacheVars, snd>>

\* else if (!ChipSelectAsserted()) return false;
RcCs ==
    /\ pc = "rc_cs"
    /\ ~IrqReady
    /\ pc' = IF cs THEN "rc_loop" ELSE "rc_fail"
    /\ UNCHANGED <<sspVars, masterVars, timerVars, sysVars, engineVars,
                   cacheVars, wcdRet, rc, snd>>

ReceiveCommand == RcFirst \/ RcPoll \/ RcCs

(***************************************************************************)
(* SpiTester::SspSendImpl                                                  *)
(***************************************************************************)
\* the precondition and the preload of the transmit FIFO
SendPreload ==
    /\ pc = "snd_pre"
    /\ ~IrqReady
    /\ IF txCount # 0
       THEN pc' = "snd_ret" /\ UNCHANGED <<txCount, snd>>
       ELSE /\ txCount' = Min(snd.len, FifoDepth)
            /\ snd' = [snd EXCEPT !.ptr = Min(snd.len, FifoDepth)]
            /\ pc' = "snd_waitcs"
    /\ UNCHANGED <<cs, rxFifo, masterVars, timerVars, sysVars, engineVars,
                   cacheVars, wcdRet, rc>>

\* while (!ChipSelectAsserted()); then the critical section is entered
SendWaitCs ==
    /\ pc = "snd_waitcs"
    /\ ~IrqReady
    /\ IF ~cs
       THEN UNCHANGED <<pc, snd, primask, wcdRet>>
       ELSE /\ snd' = [snd EXCEPT !.csSeen = TRUE, !.trans = mTrans]
            /\ IF snd.ptr = snd.len
               THEN pc' = "wcd_cs" /\ wcdRet' = "snd_ret" /\ UNCHANGED primask
               ELSE pc' = "snd_sr" /\ primask' = TRUE /\ UNCHANGED wcdRet
    /\ UNCHANGED <<sspVars, masterVars, timerVars, nvicTimer2, pinMuxed,
                   sckDetect, sckFlag, led, engineVars, cacheVars, rc>>

\* status = SR; TFE: underrun; TNF: the next byte is written
SendStatus ==
    /\ pc = "snd_sr"
    /\ ~IrqReady
    /\ snd' = [snd EXCEPT !.underrun = snd.underrun \/ (txCount = 0),
                          !.ptr = IF txCount < FifoDepth THEN @ + 1 ELSE @]
    /\ txCount' = IF txCount < FifoDepth THEN txCount + 1 ELSE txCount
    /\ pc' = "snd_cs"
    /\ UNCHANGED <<cs, rxFifo, masterVars, timerVars, sysVars, engineVars,
                   cacheVars, wcdRet, rc>>

\* if (!ChipSelectAsserted()) return;  otherwise the loop goes on, and ends
\* in WaitForCsToDeassert once every byte is written
SendCs ==
    /\ pc = "snd_cs"
    /\ ~IrqReady
    /\ IF ~cs
       THEN pc' = "snd_ret" /\ primask' = FALSE /\ UNCHANGED wcdRet
       ELSE IF snd.ptr = snd.len
            THEN pc' = "wcd_cs" /\ wcdRet' = "snd_ret" /\ primask' = FALSE
            ELSE pc' = "snd_sr" /\ UNCHANGED <<primask, wcdRet>>
    /\ UNCHANGED <<sspVars, masterVars, timerVars, nvicTimer2, pinMuxed,
                   sckDetect, sckFlag, led, engineVars, cacheVars, rc, snd>>

\* SspSendImpl has returned; RunStateMachine returns
SendReturn ==
    /\ pc = "snd_ret"
    /\ ~IrqReady
    /\ pc' = "rsm"
    /\ snd' = NoSend
    /\ rc' = NoReceive
    /\ UNCHANGED <<sspVars, masterVars, timerVars, sysVars, engineVars,
                   cacheVars, wcdRet>>

SspSendImpl == SendPreload \/ SendWaitCs \/ SendStatus \/ SendCs \/ SendReturn

(***************************************************************************)
(* SpiTester::WaitForCapture                                               *)
(***************************************************************************)
\* the values an uninitialized uint32_t may hold
UninitValues == {0, 1, Word - 1}

\* while (!(SR & RNE)): the poll of the receive FIFO
WfcRne ==
    /\ pc = "wfc_rne"
    /\ ~IrqReady
    /\ pc' = IF rxFifo # <<>> THEN "wfc_end" ELSE "wfc_cr0"
    /\ ct' = [ct EXCEPT !.polls = 0]
    /\ UNCHANGED <<sspVars, masterVars, timerVars, sysVars, pi,
                   remainingInterrupts, cacheVars, wcdRet, rc, snd>>

\* if ((capture = CR0) != 0) break;   (CapturePolls times per poll of RNE)
WfcCr0 ==
    /\ pc = "wfc_cr0"
    /\ ~IrqReady
    /\ ct' = [ct EXCEPT !.capture = cr0, !.captureSet = TRUE,
                        !.polls = (@ + 1) % CapturePolls]
    /\ pc' = IF cr0 # 0 THEN "wfc_end"
             ELSE IF ct.polls + 1 = CapturePolls THEN "wfc_rne"
             ELSE "wfc_cr0"
    /\ UNCHANGED <<sspVars, masterVars, timerVars, sysVars, pi,
                   remainingInterrupts, cacheVars, wcdRet, rc, snd>>

\* the result: Success with the capture, or EdgeNotDetected with the timer
\* counter.  capture is read uninitialized when the loop body never ran
WaitForCaptureResult(capture) ==
    IF capture # 0
    THEN [status |-> StatusSuccess, capture1 |-> capture]
    ELSE [status |-> StatusEdgeNotDetected, capture1 |-> tc]

WfcEnd ==
    /\ pc = "wfc_end"
    /\ ~IrqReady
    /\ \E capture \in IF ct.captureSet THEN {ct.capture}
                      ELSE UninitValues :
         LET r == WaitForCaptureResult(capture) IN
         ct' = [ct EXCEPT !.capture1 = r.capture1,
                          !.capture = 0, !.captureSet = FALSE,
                          !.info.ClockActiveTimeStatus = r.status]
    /\ pc' = "ct_sr"
    /\ UNCHANGED <<sspVars, masterVars, timerVars, sysVars, pi,
                   remainingInterrupts, cacheVars, wcdRet, rc, snd>>

WaitForCapture == WfcRne \/ WfcCr0 \/ WfcEnd

(***************************************************************************)
(* SpiTester::CaptureTransfer                                              *)
(***************************************************************************)
\* the value the master is expected to send next: rxValue starts at
\* Command.u.CaptureNextTransfer.SendValue
C2_ExpectedReceiveValue(cmd) == ReceiveValue(cmd)
ExpectedFromMaster(cmd) == SendValue(cmd)
\* the value sent to the master first: txValue starts at ReceiveValue
FirstToMaster(cmd) == ReceiveValue(cmd)

\* the timer is armed, interrupts are disabled and the transmit FIFO is
\* filled with FifoDepth elements
CtSetup ==
    /\ pc = "ct_entry"
    /\ ~IrqReady
    /\ ct' = [NoCapture EXCEPT
                !.cmd = rc.bytes,
                !.dataMask = 2 ^ DataBitLength(rc.bytes) - 1,
                !.rxValue = ExpectedFromMaster(rc.bytes),
                !.txValue = U32(FirstToMaster(rc.bytes) + FifoDepth)]
    /\ tcr' = "RESET"
    /\ tc' = 0
    /\ mcr' = {"STOP"}
    /\ mr0' = Word - 1
    /\ ccrFalling' = TRUE
    /\ primask' = TRUE
    /\ txCount' = FifoDepth
    /\ pc' = "ct_waitcs"
    /\ UNCHANGED <<cs, rxFifo, masterVars, cr0, emr, irPending, matches,
                   nvicTimer2,
                   pinMuxed, sckDetect, sckFlag, led, pi, remainingInterrupts,
                   cacheVars, wcdRet, rc, snd>>

\* while (!ChipSelectAsserted()); then the timer is started and
\* WaitForCapture is called
CtWaitCs ==
    /\ pc = "ct_waitcs"
    /\ ~IrqReady
    /\ IF ~cs
       THEN UNCHANGED <<pc, tcr, ct>>
       ELSE /\ tcr' = "ENABLE"
            /\ ct' = [ct EXCEPT !.captureSet = FALSE, !.polls = 0]
            /\ pc' = "wfc_rne"
    /\ UNCHANGED <<sspVars, masterVars, tc, mcr, mr0, cr0, ccrFalling, emr,
                   irPending, matches, sysVars, pi, remainingInterrupts, cacheVars,
                   wcdRet, rc, snd>>

\* a received element is checked against the expected value; the first
\* mismatch is recorded
CheckElement(c, data) ==
    [c EXCEPT
       !.mismatchDetected = @ \/ (data # c.rxValue % (c.dataMask + 1)),
       !.info.MismatchIndex =
           IF data # c.rxValue % (c.dataMask + 1) /\ ~c.mismatchDetected
           THEN U32(c.rxValue - SendValue(c.cmd))
           ELSE @,
       !.rxValue = U32(@ + 1)]

\* status = SR; a received element is read and checked, and the transmit
\* FIFO is refilled when it has space
CtStatus ==
    /\ pc = "ct_sr"
    /\ ~IrqReady
    /\ IF rxFifo # <<>>
       THEN /\ rxFifo' = Tail(rxFifo)
            /\ LET c == CheckElement(ct, Head(rxFifo).v % (ct.dataMask + 1)) IN
               ct' = [c EXCEPT !.txValue = IF txCount < FifoDepth
                                            THEN U32(@ + 1) ELSE @]
            /\ txCount' = Min(txCount + 1, FifoDepth)
            /\ pc' = "ct_sr"
       ELSE /\ ct' = [ct EXCEPT !.tnf = (txCount < FifoDepth)]
            /\ pc' = "ct_cs"
            /\ UNCHANGED <<rxFifo, txCount>>
    /\ UNCHANGED <<cs, masterVars, timerVars, sysVars, pi,
                   remainingInterrupts, cacheVars, wcdRet, rc, snd>>

\* else if (!ChipSelectAsserted()) break;   otherwise the refill
CtCs ==
    /\ pc = "ct_cs"
    /\ ~IrqReady
    /\ IF ~cs
       THEN pc' = "ct_fin" /\ UNCHANGED <<txCount, ct>>
       ELSE /\ pc' = "ct_sr"
            /\ txCount' = IF ct.tnf THEN Min(txCount + 1, FifoDepth)
                          ELSE txCount
            /\ ct' = [ct EXCEPT !.txValue = IF ct.tnf THEN U32(@ + 1) ELSE @]
    /\ UNCHANGED <<cs, rxFifo, masterVars, timerVars, sysVars, pi,
                   remainingInterrupts, cacheVars, wcdRet, rc, snd>>

C6_FinalWithoutSentinel(c, timerEnabled, capture2) ==
    [ElementCount |-> U32(c.rxValue - SendValue(c.cmd)),
     MismatchIndex |-> c.info.MismatchIndex,
     ClockActiveTimeStatus |-> c.info.ClockActiveTimeStatus,
     ClockActiveTime |-> c.info.ClockActiveTime]

C13_FinalAlwaysTimed(c, timerEnabled, capture2) ==
    LET count == U32(c.rxValue - SendValue(c.cmd)) IN
    [ElementCount |-> count,
     MismatchIndex |-> IF c.mismatchDetected THEN c.info.MismatchIndex
                       ELSE count,
     ClockActiveTimeStatus |->
         IF c.info.ClockActiveTimeStatus = StatusSuccess /\ ~timerEnabled
         THEN StatusOverflow ELSE c.info.ClockActiveTimeStatus,
     ClockActiveTime |-> U32(capture2 - c.capture1)]

\* the TransferInfo CaptureTransfer returns
FinalTransferInfo(c, timerEnabled, capture2) ==
    LET count == U32(c.rxValue - SendValue(c.cmd)) IN
    [ElementCount |-> count,
     MismatchIndex |-> IF c.mismatchDetected THEN c.info.MismatchIndex
                       ELSE count,
     ClockActiveTimeStatus |->
         IF c.info.ClockActiveTimeStatus = StatusSuccess /\ ~timerEnabled
         THEN StatusOverflow ELSE c.info.ClockActiveTimeStatus,
     ClockActiveTime |->
         IF c.info.ClockActiveTimeStatus = StatusSuccess /\ timerEnabled
         THEN U32(capture2 - c.capture1) ELSE c.info.ClockActiveTime]

\* after the loop: interrupts are enabled, the clock measurement and the
\* counts are finalized
CtFinish ==
    /\ pc = "ct_fin"
    /\ ~IrqReady
    /\ primask' = FALSE
    /\ ct' = [ct EXCEPT !.info = FinalTransferInfo(ct, tcr = "ENABLE", cr0)]
    /\ IF ct.info.ClockActiveTimeStatus = StatusSuccess /\ tcr = "ENABLE"
       THEN tcr' = "RESET" /\ tc' = 0
       ELSE UNCHANGED <<tcr, tc>>
    /\ pc' = "ct_ret"
    /\ UNCHANGED <<sspVars, masterVars, mcr, mr0, cr0, ccrFalling, emr,
                   irPending, matches, nvicTimer2, pinMuxed, sckDetect, sckFlag, led,
                   pi, remainingInterrupts, cacheVars, wcdRet, rc, snd>>

\* this->transferInfo = CaptureTransfer(command);
CtReturn ==
    /\ pc = "ct_ret"
    /\ ~IrqReady
    /\ transferInfo' = ct.info
    /\ ct' = NoCapture
    /\ rc' = NoReceive
    /\ pc' = "rsm"
    /\ UNCHANGED <<sspVars, masterVars, timerVars, sysVars, pi,
                   remainingInterrupts, interruptInfo, wcdRet, snd>>

CaptureTransfer == CtSetup \/ CtWaitCs \/ CtStatus \/ CtCs \/ CtFinish \/ CtReturn

(***************************************************************************)
(* TIMER2_IRQHandler                                                       *)
(***************************************************************************)
C19_HandlerKeepsMatchControl ==
    /\ IrqReady
    /\ irPending' = FALSE
    /\ remainingInterrupts' = U32(remainingInterrupts - 1)
    /\ UNCHANGED <<tc, mcr, tcr>>
    /\ UNCHANGED <<sspVars, masterVars, mr0, cr0, ccrFalling, emr, matches,
                   sysVars, ct, pi, cacheVars, progVars>>

\* IR is cleared and remainingInterrupts decremented; at zero the timer is
\* reset, its match control cleared and the timer enabled again
TIMER2_IRQHandler ==
    /\ IrqReady
    /\ irPending' = FALSE
    /\ remainingInterrupts' = U32(remainingInterrupts - 1)
    /\ IF U32(remainingInterrupts - 1) = 0
       THEN tc' = 0 /\ mcr' = {} /\ tcr' = "ENABLE"
       ELSE UNCHANGED <<tc, mcr, tcr>>
    /\ UNCHANGED <<sspVars, masterVars, mr0, cr0, ccrFalling, emr, matches,
                   sysVars, ct, pi, cacheVars, progVars>>

(***************************************************************************)
(* SpiTester::RunPeriodicInterrupts                                        *)
(***************************************************************************)
\* the latency classification of one acknowledgement
Difference(last, remaining) == ToInt(U32(last - remaining))

C7_LateWithoutOffset(difference, period, capture) ==
    IF difference = 0 THEN INVALID_TIME_SINCE_FALLING_EDGE
    ELSE IF difference = 1 THEN capture
    ELSE U32(difference * period + capture)

TimeSinceFallingEdge(difference, period, capture) ==
    IF difference = 0 THEN INVALID_TIME_SINCE_FALLING_EDGE
    ELSE IF difference = 1 THEN capture
    ELSE U32((difference - 1) * period + capture)

C1_ClassifyPerInterrupt(p, remaining) ==
    LET d == Difference(p.lastAckedInterruptCount, remaining) IN
    [p EXCEPT
       !.difference = d,
       !.ackedBeforeDeadlineCount = IF d >= 1 THEN U32(@ + 1) ELSE @,
       !.ackedPastDeadlineCount = IF d > 1 THEN U32(@ + d - 1) ELSE @,
       !.ackTime = TimeSinceFallingEdge(d, p.period, p.capture),
       !.lastAckedInterruptCount = U32(@ - d),
       !.ptr = 0]

Classify(p, remaining) ==
    LET d == Difference(p.lastAckedInterruptCount, remaining) IN
    [p EXCEPT
       !.difference = d,
       !.alreadyAckedCount = IF d = 0 THEN U32(@ + 1) ELSE @,
       !.ackedBeforeDeadlineCount = IF d = 1 THEN U32(@ + 1) ELSE @,
       !.ackedPastDeadlineCount = IF d > 1 THEN U32(@ + 1) ELSE @,
       !.ackTime = TimeSinceFallingEdge(d, p.period, p.capture),
       !.lastAckedInterruptCount = U32(@ - d),
       !.ptr = 0]

\* the timer is programmed; the session is armed unless the interrupt count
\* overflows
PiArm ==
    /\ pc = "pi_entry"
    /\ ~IrqReady
    /\ irPending' = FALSE
    /\ matches' = 0
    /\ mcr' = {"INT", "RESET"}
    /\ mr0' = SystemCoreClock \div InterruptFrequency(rc.bytes)
    /\ emr' = {"EM0", "LOW"}
    /\ ccrFalling' = FALSE
    /\ tc' = 0
    /\ IF ~ComputeInterruptCount(rc.bytes)
       THEN /\ pi' = [NoPeriodic EXCEPT
                        !.cmd = rc.bytes,
                        !.info.Status.ArithmeticOverflow = TRUE]
            /\ tcr' = "RESET"
            /\ pc' = "pi_ret"
            /\ UNCHANGED <<remainingInterrupts, pinMuxed, nvicTimer2,
                           sckDetect, sckFlag>>
       ELSE /\ pi' = [NoPeriodic EXCEPT
                        !.cmd = rc.bytes,
                        !.period = SystemCoreClock
                                       \div InterruptFrequency(rc.bytes),
                        !.interruptCount = InterruptCountOf(rc.bytes),
                        !.lastAckedInterruptCount = InterruptCountOf(rc.bytes)]
            /\ remainingInterrupts' = InterruptCountOf(rc.bytes)
            /\ pinMuxed' = TRUE
            /\ nvicTimer2' = TRUE
            /\ tcr' = "ENABLE"
            /\ sckDetect' = TRUE
            /\ sckFlag' = FALSE
            /\ pc' = "pi_while"
    /\ UNCHANGED <<sspVars, masterVars, cr0, primask, led, ct, cacheVars,
                   wcdRet, rc, snd>>

\* while (this->remainingInterrupts)
PiWhile ==
    /\ pc = "pi_while"
    /\ ~IrqReady
    /\ pc' = IF remainingInterrupts # 0 THEN "pi_dummy" ELSE "pi_fin"
    /\ UNCHANGED <<sspVars, masterVars, timerVars, sysVars, engineVars,
                   cacheVars, wcdRet, rc, snd>>

\* the dummy exchange (FifoDepth writes and reads of DR), then the SCK
\* edge flag is cleared
PiDummy ==
    /\ pc = "pi_dummy"
    /\ ~IrqReady
    /\ txCount' = FifoDepth
    /\ rxFifo' = <<>>
    /\ sckFlag' = FALSE
    /\ pc' = "pi_wait"
    /\ UNCHANGED <<cs, masterVars, timerVars, nvicTimer2, primask, pinMuxed,
                   sckDetect, led, engineVars, cacheVars, wcdRet, rc, snd>>

\* while (!(IO0IntStatF & (1 << 15)));
PiWait ==
    /\ pc = "pi_wait"
    /\ ~IrqReady
    /\ pc' = IF sckFlag THEN "pi_cap" ELSE "pi_wait"
    /\ UNCHANGED <<sspVars, masterVars, timerVars, sysVars, engineVars,
                   cacheVars, wcdRet, rc, snd>>

\* uint32_t capture = LPC_TIM2->TC;
PiCapture ==
    /\ pc = "pi_cap"
    /\ ~IrqReady
    /\ pi' = [pi EXCEPT !.capture = tc]
    /\ pc' = "pi_dis"
    /\ UNCHANGED <<sspVars, masterVars, timerVars, sysVars, ct,
                   remainingInterrupts, cacheVars, wcdRet, rc, snd>>

\* the interrupt signal is deasserted and the critical section is entered
PiDisable ==
    /\ pc = "pi_dis"
    /\ ~IrqReady
    /\ emr' = emr \cup {"EM0"}
    /\ primask' = TRUE
    /\ pc' = "pi_rne"
    /\ UNCHANGED <<sspVars, masterVars, tcr, tc, mcr, mr0, cr0, ccrFalling,
                   irPending, matches, nvicTimer2, pinMuxed, sckDetect, sckFlag, led,
                   engineVars, cacheVars, wcdRet, rc, snd>>

\* the first byte of the round: anything but AcknowledgeInterrupt ends the
\* session; the acknowledgement is classified
PiCommand ==
    /\ pc = "pi_rne"
    /\ ~IrqReady
    /\ IF rxFifo = <<>>
       THEN pc' = "pi_rcs" /\ UNCHANGED <<rxFifo, pi, wcdRet>>
       ELSE /\ rxFifo' = Tail(rxFifo)
            /\ IF Head(rxFifo).v # CmdAcknowledgeInterrupt
               THEN /\ pi' = [pi EXCEPT !.info.Status.NotAcknowledged = TRUE]
                    /\ pc' = "wcd_cs"
                    /\ wcdRet' = "pi_exit"
               ELSE IF Difference(pi.lastAckedInterruptCount,
                                  remainingInterrupts) < 0
               THEN /\ pi' = [pi EXCEPT
                                !.info.Status.ArithmeticOverflow = TRUE]
                    /\ pc' = "pi_exit"
                    /\ UNCHANGED wcdRet
               ELSE /\ pi' = [Classify(pi, remainingInterrupts)
                               EXCEPT !.rounds = pi.rounds + 1]
                    /\ pc' = "pi_sr"
                    /\ UNCHANGED wcdRet
    /\ UNCHANGED <<cs, txCount, masterVars, timerVars, sysVars, ct,
                   remainingInterrupts, cacheVars, rc, snd>>

C9_PartialResultsOnAbort ==
    /\ pc = "pi_rcs"
    /\ ~IrqReady
    /\ IF ~cs
       THEN /\ pi' = [pi EXCEPT !.info.Status.IncompleteReceive = TRUE]
            /\ pc' = "pi_fin"
       ELSE pc' = "pi_rne" /\ UNCHANGED pi
    /\ UNCHANGED <<sspVars, masterVars, timerVars, sysVars, ct,
                   remainingInterrupts, cacheVars, wcdRet, rc, snd>>

\* if (!ChipSelectAsserted()) { IncompleteReceive; return; }
PiCommandCs ==
    /\ pc = "pi_rcs"
    /\ ~IrqReady
    /\ IF ~cs
       THEN /\ pi' = [pi EXCEPT !.info.Status.IncompleteReceive = TRUE]
            /\ pc' = "pi_exit"
       ELSE pc' = "pi_rne" /\ UNCHANGED pi
    /\ UNCHANGED <<sspVars, masterVars, timerVars, sysVars, ct,
                   remainingInterrupts, cacheVars, wcdRet, rc, snd>>

\* the reply loop: status = SR; TFE: underrun, break; TNF: the next byte
PiStatus ==
    /\ pc = "pi_sr"
    /\ ~IrqReady
    /\ IF txCount = 0
       THEN /\ pi' = [pi EXCEPT !.info.Status.TransmitUnderrun = TRUE]
            /\ pc' = "wcd_cs"
            /\ wcdRet' = "pi_next"
            /\ UNCHANGED txCount
       ELSE /\ pi' = [pi EXCEPT !.ptr = IF txCount < FifoDepth
                                        THEN @ + 1 ELSE @]
            /\ txCount' = Min(txCount + 1, FifoDepth)
            /\ pc' = "pi_scs"
            /\ UNCHANGED wcdRet
    /\ UNCHANGED <<cs, rxFifo, masterVars, timerVars, sysVars, ct,
                   remainingInterrupts, cacheVars, rc, snd>>

C8_AbortOnIncompleteTransmit ==
    /\ pc = "pi_scs"
    /\ ~IrqReady
    /\ IF ~cs
       THEN /\ pi' = [pi EXCEPT !.info.Status.IncompleteTransmit = TRUE]
            /\ pc' = "pi_exit"
            /\ UNCHANGED wcdRet
       ELSE /\ UNCHANGED pi
            /\ IF pi.ptr = AckInfoSize
               THEN pc' = "wcd_cs" /\ wcdRet' = "pi_next"
               ELSE pc' = "pi_sr" /\ UNCHANGED wcdRet
    /\ UNCHANGED <<sspVars, masterVars, timerVars, sysVars, ct,
                   remainingInterrupts, cacheVars, rc, snd>>

\* if (!ChipSelectAsserted()) { IncompleteTransmit; break; }
PiStatusCs ==
    /\ pc = "pi_scs"
    /\ ~IrqReady
    /\ IF ~cs
       THEN /\ pi' = [pi EXCEPT !.info.Status.IncompleteTransmit = TRUE]
            /\ pc' = "wcd_cs"
            /\ wcdRet' = "pi_next"
       ELSE /\ UNCHANGED pi
            /\ IF pi.ptr = AckInfoSize
               THEN pc' = "wcd_cs" /\ wcdRet' = "pi_next"
               ELSE pc' = "pi_sr" /\ UNCHANGED wcdRet
    /\ UNCHANGED <<sspVars, masterVars, timerVars, sysVars, ct,
                   remainingInterrupts, cacheVars, rc, snd>>

\* the end of the loop body: the critical section is left (the locals of
\* the body go out of scope)
PiNext ==
    /\ pc = "pi_next"
    /\ ~IrqReady
    /\ primask' = FALSE
    /\ pi' = [pi EXCEPT !.capture = 0, !.difference = 0, !.ackTime = 0,
                        !.ptr = 0]
    /\ pc' = "pi_while"
    /\ UNCHANGED <<sspVars, masterVars, timerVars, nvicTimer2, pinMuxed,
                   sckDetect, sckFlag, led, ct, remainingInterrupts,
                   cacheVars, wcdRet, rc, snd>>

\* after the loop: the counts are stored in the result
PiFinish ==
    /\ pc = "pi_fin"
    /\ ~IrqReady
    /\ pi' = [pi EXCEPT
                !.info.InterruptCount = pi.interruptCount,
                !.info.AcknowledgedBeforeDeadlineCount =
                    pi.ackedBeforeDeadlineCount,
                !.info.AcknowledgedAfterDeadlineCount =
                    pi.ackedPastDeadlineCount,
                !.info.AlreadyAcknowledgedCount = pi.alreadyAckedCount]
    /\ pc' = "pi_exit"
    /\ UNCHANGED <<sspVars, masterVars, timerVars, sysVars, ct,
                   remainingInterrupts, cacheVars, wcdRet, rc, snd>>

C5_ExitWithoutTeardown ==
    /\ pc = "pi_exit"
    /\ ~IrqReady
    /\ primask' = FALSE
    /\ pc' = "pi_ret"
    /\ UNCHANGED <<sspVars, masterVars, timerVars, nvicTimer2, pinMuxed,
                   sckDetect, sckFlag, led, engineVars, cacheVars, wcdRet,
                   rc, snd>>

\* a return from inside the armed session: the critical section is left
PiExit ==
    /\ pc = "pi_exit"
    /\ ~IrqReady
    /\ primask' = FALSE
    /\ pc' = "pi_teardown"
    /\ UNCHANGED <<sspVars, masterVars, timerVars, nvicTimer2, pinMuxed,
                   sckDetect, sckFlag, led, engineVars, cacheVars, wcdRet,
                   rc, snd>>

\* the Finally block
PiTeardown ==
    /\ pc = "pi_teardown"
    /\ ~IrqReady
    /\ sckDetect' = FALSE
    /\ tcr' = "RESET"
    /\ tc' = 0
    /\ nvicTimer2' = FALSE
    /\ emr' = {"EM0"}
    /\ pinMuxed' = FALSE
    /\ led' = FALSE
    /\ pc' = "pi_ret"
    /\ UNCHANGED <<sspVars, masterVars, mcr, mr0, cr0, ccrFalling, irPending,
                   matches, primask, sckFlag, engineVars, cacheVars, wcdRet, rc, snd>>

\* this->interruptInfo = RunPeriodicInterrupts(command);
PiReturn ==
    /\ pc = "pi_ret"
    /\ ~IrqReady
    /\ interruptInfo' = pi.info
    /\ pi' = NoPeriodic
    /\ rc' = NoReceive
    /\ pc' = "rsm"
    /\ UNCHANGED <<sspVars, masterVars, timerVars, sysVars, ct,
                   remainingInterrupts, transferInfo, wcdRet, snd>>

RunPeriodicInterrupts ==
    \/ PiArm \/ PiWhile \/ PiDummy \/ PiWait \/ PiCapture \/ PiDisable
    \/ PiCommand \/ PiCommandCs \/ PiStatus \/ PiStatusCs \/ PiNext
    \/ PiFinish \/ PiExit \/ PiTeardown \/ PiReturn

(***************************************************************************)
(* SpiTester::RunStateMachine                                              *)
(***************************************************************************)
\* sizeof of the response structures (declared in spitester.h)
ResponseLength == FifoDepth + RespExtra

\* ReceiveCommand returned false: nothing is dispatched
RsmNoCommand ==
    /\ pc = "rc_fail"
    /\ ~IrqReady
    /\ pc' = "rsm"
    /\ rc' = NoReceive
    /\ UNCHANGED <<sspVars, masterVars, timerVars, sysVars, engineVars,
                   cacheVars, wcdRet, snd>>

C11_RequestedSwapped(code) ==
    IF code = CmdGetDeviceInfo THEN TesterInfo
    ELSE IF code = CmdGetTransferInfo THEN interruptInfo
    ELSE transferInfo

\* the structure a get command hands to SspSendWithChecksum
Requested(code) ==
    IF code = CmdGetDeviceInfo THEN TesterInfo
    ELSE IF code = CmdGetTransferInfo THEN transferInfo
    ELSE interruptInfo

C12_DispatchDefaultSends ==
    /\ pc = "rc_done"
    /\ ~IrqReady
    /\ LET code == CommandCode(rc.bytes) IN
       IF code = CmdCaptureNextTransfer
       THEN pc' = "ct_entry" /\ UNCHANGED snd
       ELSE IF code = CmdStartPeriodicInterrupts
       THEN pc' = "pi_entry" /\ UNCHANGED snd
       ELSE /\ pc' = "snd_pre"
            /\ snd' = [NoSend EXCEPT !.len = ResponseLength,
                                     !.data = Requested(code)]
    /\ UNCHANGED <<sspVars, masterVars, timerVars, sysVars, engineVars,
                   cacheVars, wcdRet, rc>>

\* switch (command.Command)
RsmDispatch ==
    /\ pc = "rc_done"
    /\ ~IrqReady
    /\ LET code == CommandCode(rc.bytes) IN
       IF code \in {CmdGetDeviceInfo, CmdGetTransferInfo,
                    CmdGetPeriodicInterruptInfo}
       THEN /\ pc' = "snd_pre"
            /\ snd' = [NoSend EXCEPT !.len = ResponseLength,
                                     !.data = Requested(code)]
       ELSE IF code = CmdCaptureNextTransfer
       THEN pc' = "ct_entry" /\ UNCHANGED snd
       ELSE IF code = CmdStartPeriodicInterrupts
       THEN pc' = "pi_entry" /\ UNCHANGED snd
       ELSE pc' = "rsm" /\ UNCHANGED snd
    /\ rc' = IF pc' = "rsm" THEN NoReceive ELSE rc
    /\ UNCHANGED <<sspVars, masterVars, timerVars, sysVars, engineVars,
                   cacheVars, wcdRet>>

RunStateMachine == RsmNoCommand \/ RsmDispatch

Next ==
    \/ Master
    \/ ReceiveCommand
    \/ RunStateMachine
    \/ SspSendImpl
    \/ WaitForCsToDeassert
    \/ WaitForCapture
    \/ CaptureTransfer
    \/ RunPeriodicInterrupts
    \/ TIMER2_IRQHandler
    \/ TimerTick
    \/ TimerOverflow

Spec == Init /\ [][Next]_vars

(***************************************************************************)
(* Termination is checked on a few scripts, with the processor always      *)
(* running and a master that deasserts chip-select once it asserted it.    *)
(***************************************************************************)
LiveScripts ==
    {<<FrameCommand(CmdGetDeviceInfo), FrameRead, FrameUnknown>>,
     <<FrameCapture(8, 16, 80), <<16, 17, 18>>>>,
     <<FrameCapture(8, Word - 1, 0), <<Word - 1, 0, 1>>>>,
     <<FrameStart(1, 1), FrameAck, FrameAck>>,
     <<FrameStart(2, 1), FrameAckLong>>}

LiveInit == Init /\ mScript \in LiveScripts

\* the instructions the processor executes
Firmware ==
    \/ ReceiveCommand
    \/ RunStateMachine
    \/ SspSendImpl
    \/ WaitForCsToDeassert
    \/ WaitForCapture
    \/ CaptureTransfer
    \/ RunPeriodicInterrupts
    \/ TIMER2_IRQHandler

LiveSpec ==
    /\ LiveInit
    /\ [][Next]_vars
    /\ WF_vars(Firmware)
    /\ WF_vars(MasterDeassert)

(***************************************************************************)
(* Properties                                                              *)
(***************************************************************************)
\* the session was aborted by an early return
Aborted(info) ==
    \/ info.Status.ArithmeticOverflow
    \/ info.Status.NotAcknowledged
    \/ info.Status.IncompleteReceive

CountSum(info) ==
    info.AlreadyAcknowledgedCount + info.AcknowledgedBeforeDeadlineCount
        + info.AcknowledgedAfterDeadlineCount

\* RunPeriodicInterrupts is about to return from its last statement
NormalReturn == pc = "pi_ret" /\ ~Aborted(pi.info)

\* C1 (as stated): a session that returns without an abort returns counts
\* whose sum is InterruptCount
C1_SumIsInterruptCount ==
    NormalReturn => CountSum(pi.info) = pi.info.InterruptCount

\* C1 (amended): a session that returns without an abort returns counts
\* whose sum is the number of acknowledgement rounds that were classified:
\* each round adds one to exactly one of the three counts, however many
\* interrupts it covers
C1_SumIsRoundCount ==
    NormalReturn => CountSum(pi.info) = pi.rounds

C1_Witness ==
    /\ NormalReturn
    /\ pi.rounds > 0
    /\ CountSum(pi.info) # pi.info.InterruptCount

\* the index of the first of the n elements of a frame that differs from
\* first + index (masked), n when none differs
RECURSIVE FirstDifference(_, _, _, _, _)
FirstDifference(frame, first, modulus, n, k) ==
    IF k = n THEN n
    ELSE IF frame[k + 1] % modulus # (first + k) % modulus THEN k
    ELSE FirstDifference(frame, first, modulus, n, k + 1)

\* the capture of the scenario: DataBitLength 8, SendValue 0x10,
\* ReceiveValue 0x50, the master sends 0x50, 0x99, 0x52
Scenario0x99 ==
    /\ pc = "ct_ret"
    /\ ct.cmd = FrameCapture(8, 16, 80)
    /\ CurFrame = <<80, 153, 82>>

\* C2 (as stated): in the scenario, once the three elements are counted,
\* MismatchIndex is 1
C2_MismatchAgainstReceiveValue ==
    (Scenario0x99 /\ ct.info.ElementCount = 3) => ct.info.MismatchIndex = 1

\* C2 (amended): CaptureTransfer checks the i-th element received from the
\* master against (SendValue + i) masked to DataBitLength bits and records
\* the index of the first element that differs; in the scenario the
\* TransferInfo has MismatchIndex == 0 and ElementCount <= 3
C2_MismatchAgainstSendValue ==
    /\ pc = "ct_ret" =>
          /\ ct.info.ElementCount <= Len(CurFrame)
          /\ ct.info.MismatchIndex =
                FirstDifference(CurFrame, SendValue(ct.cmd),
                                2 ^ DataBitLength(ct.cmd),
                                ct.info.ElementCount, 0)
    /\ Scenario0x99 =>
          ct.info.MismatchIndex = 0 /\ ct.info.ElementCount <= 3

C2_Witness ==
    Scenario0x99 /\ ct.info.ElementCount = 3 /\ ct.info.MismatchIndex = 0

\* C3: when SspSendImpl returns after chip-select was asserted, the receive
\* FIFO is empty and chip-select is deasserted
C3_SendReturnsDrained ==
    (pc = "snd_ret" /\ snd.csSeen) => (rxFifo = <<>> /\ ~cs)

\* C4: when ReceiveCommand returns failure no byte of the partial frame is
\* left in the receive FIFO; when it returns success the FIFO is drained
\* and chip-select is deasserted
C4_PartialFrameDiscarded ==
    /\ pc = "rc_fail" => rxFifo = <<>>
    /\ pc = "rc_done" => (rxFifo = <<>> /\ ~cs)

\* the state the teardown of RunPeriodicInterrupts leaves
TornDown ==
    /\ ~sckDetect
    /\ tcr = "RESET"
    /\ ~nvicTimer2
    /\ emr = {"EM0"}
    /\ ~pinMuxed
    /\ ~led

\* C5 (as stated): RunPeriodicInterrupts returns with the teardown done on
\* every exit path
C5_TeardownOnEveryExit == pc = "pi_ret" => TornDown

\* C5 (amended): the teardown runs on every exit path of the armed session
\* (normal return, IncompleteReceive, NotAcknowledged, negative
\* difference); the interrupt-count overflow abort returns before the
\* teardown is registered: the timer is in reset, and the TIMER2 interrupt,
\* the pin mux, SCK edge detection and the LED are left as they were, with
\* the match output still programmed low-on-match
C5_TeardownAfterArming ==
    [][(pc' = "pi_ret" /\ pc # "pi_ret") =>
          IF InterruptCountOf(rc.bytes) < Word
          THEN pc = "pi_teardown" /\ TornDown'
          ELSE /\ pc = "pi_entry"
               /\ tcr' = "RESET"
               /\ emr' = {"EM0", "LOW"}
               /\ UNCHANGED <<nvicTimer2, pinMuxed, sckDetect, led>>]_vars

C5_Witness ==
    /\ pc = "pi_ret"
    /\ pi.info.Status.ArithmeticOverflow
    /\ InterruptCountOf(rc.bytes) >= Word
    /\ led

\* C6: in every TransferInfo CaptureTransfer produces MismatchIndex is at
\* most ElementCount, and it equals ElementCount when none of the counted
\* elements differs from the expected sequence, a transfer without any
\* element included
C6_MismatchIndexBound ==
    pc = "ct_ret" =>
       /\ ct.info.MismatchIndex <= ct.info.ElementCount
       /\ (\A k \in 1..ct.info.ElementCount :
              CurFrame[k] % 2 ^ DataBitLength(ct.cmd)
                  = (SendValue(ct.cmd) + k - 1) % 2 ^ DataBitLength(ct.cmd))
             => ct.info.MismatchIndex = ct.info.ElementCount

C6_Witness ==
    /\ pc = "ct_ret"
    /\ ct.info.ElementCount = 0
    /\ ct.info.MismatchIndex = 0
    /\ ~cs

\* the step of RunPeriodicInterrupts that classifies an acknowledgement
ClassifyStep == pc = "pi_rne" /\ pc' = "pi_sr"

\* C7: in the latency classification, with d the difference of
\* lastAckedInterruptCount and remainingInterrupts (32-bit unsigned
\* arithmetic): the reply's TimeSinceFallingEdge is the invalid sentinel
\* when d = 0, the captured timestamp when d = 1 and
\* (d - 1) * period + timestamp when d > 1; lastAckedInterruptCount is
\* reduced by d
C7_LatencyClassification ==
    [][ClassifyStep =>
          LET d == ToInt(U32(pi.lastAckedInterruptCount
                                 - remainingInterrupts))
              period == SystemCoreClock \div InterruptFrequency(rc.bytes)
          IN /\ d = 0 => pi'.ackTime = INVALID_TIME_SINCE_FALLING_EDGE
             /\ d = 1 => pi'.ackTime = pi.capture
             /\ d > 1 => pi'.ackTime = U32((d - 1) * period + pi.capture)
             /\ pi'.lastAckedInterruptCount
                   = U32(pi.lastAckedInterruptCount - d)]_vars

C7_Witness ==
    /\ pc = "pi_sr"
    /\ pi.difference > 1
    /\ pi.capture > 0
    /\ pi.ackTime = (pi.difference - 1) * pi.period + pi.capture

\* C8: when chip-select deasserts, or the transmit FIFO runs empty, while
\* the acknowledgement reply is streamed out, IncompleteTransmit
\* (TransmitUnderrun) is set and the session is not aborted: the loop goes
\* on to its next iteration, and the result of a session that was not
\* aborted otherwise carries the interrupt and acknowledgement counts
C8_ReplyErrorsContinue ==
    /\ [][/\ (pc = "pi_scs" /\ ~cs /\ pc' # pc) =>
                /\ pi'.info.Status.IncompleteTransmit
                /\ pc' = "wcd_cs" /\ wcdRet' = "pi_next"
          /\ (pc = "pi_sr" /\ txCount = 0 /\ pc' # pc) =>
                /\ pi'.info.Status.TransmitUnderrun
                /\ pc' = "wcd_cs" /\ wcdRet' = "pi_next"
          /\ (pc = "pi_next" /\ pc' # pc) => pc' = "pi_while"
          /\ (pc = "pi_while" /\ remainingInterrupts # 0 /\ pc' # pc) =>
                pc' = "pi_dummy"]_vars
    /\ []((NormalReturn /\ (pi.info.Status.IncompleteTransmit
                               \/ pi.info.Status.TransmitUnderrun)) =>
             /\ pi.info.InterruptCount = pi.interruptCount
             /\ pi.info.AlreadyAcknowledgedCount = pi.alreadyAckedCount
             /\ pi.info.AcknowledgedBeforeDeadlineCount
                   = pi.ackedBeforeDeadlineCount
             /\ pi.info.AcknowledgedAfterDeadlineCount
                   = pi.ackedPastDeadlineCount)

C8_Witness ==
    /\ pc = "pi_dummy"
    /\ pi.info.Status.IncompleteTransmit
    /\ remainingInterrupts # 0

\* RunPeriodicInterrupts is returning
Returning == pc \in {"pi_exit", "pi_teardown", "pi_ret"}

\* C9: in an acknowledgement round, a first byte other than
\* AcknowledgeInterrupt, or chip-select deasserting before a byte is
\* received, makes the session return with NotAcknowledged
\* (IncompleteReceive) set, and the returned InterruptCount and
\* acknowledgement counts are zero however many acknowledgements were
\* counted before
C9_AbortReturnsNoCounts ==
    /\ [][/\ (pc = "pi_rne" /\ rxFifo # <<>>
                 /\ Head(rxFifo).v # CmdAcknowledgeInterrupt /\ pc' # pc) =>
                /\ pi'.info.Status.NotAcknowledged
                /\ pc' = "wcd_cs" /\ wcdRet' = "pi_exit"
          /\ (pc = "pi_rcs" /\ ~cs /\ pc' # pc) =>
                pi'.info.Status.IncompleteReceive /\ pc' = "pi_exit"]_vars
    /\ []((Returning /\ (pi.info.Status.NotAcknowledged
                            \/ pi.info.Status.IncompleteReceive)) =>
             /\ pi.info.InterruptCount = 0
             /\ CountSum(pi.info) = 0)

C9_Witness ==
    /\ pc = "pi_ret"
    /\ pi.info.Status.NotAcknowledged
    /\ pi.ackedBeforeDeadlineCount > 0
    /\ pi.info.AcknowledgedBeforeDeadlineCount = 0

\* C10: StartPeriodicInterrupts with a duration and frequency whose
\* interrupt count does not fit returns with ArithmeticOverflow set and
\* generates no interrupt: remainingInterrupts is not written, the TIMER2
\* interrupt is not enabled, the timer is not started, the interrupt
\* output pin is not muxed and the returned InterruptCount is 0
C10_OverflowGeneratesNothing ==
    /\ [][(pc = "pi_entry" /\ InterruptCountOf(rc.bytes) >= Word
              /\ pc' # pc) =>
             /\ pc' = "pi_ret"
             /\ pi'.info.Status.ArithmeticOverflow
             /\ pi'.info.InterruptCount = 0
             /\ UNCHANGED <<remainingInterrupts, nvicTimer2, pinMuxed>>
             /\ tcr' = "RESET"]_vars
    /\ []((pc = "pi_ret" /\ InterruptCountOf(rc.bytes) >= Word) =>
             /\ ~nvicTimer2
             /\ ~pinMuxed
             /\ tcr = "RESET"
             /\ ~irPending)

C10_Witness ==
    /\ pc = "pi_ret"
    /\ InterruptCountOf(rc.bytes) >= Word
    /\ pi.info.Status.ArithmeticOverflow
    /\ remainingInterrupts # 0

\* SspSendImpl is running for a get command
Sending == pc \in {"snd_pre", "snd_waitcs", "snd_sr", "snd_cs", "snd_ret"}

\* C11: a GetTransferInfo response carries the TransferInfo of the most
\* recent CaptureNextTransfer (the default one when none ran) and a
\* GetPeriodicInterruptInfo response the PeriodicInterruptInfo of the most
\* recent StartPeriodicInterrupts: the cached results are assigned only
\* when CaptureTransfer and RunPeriodicInterrupts return, with their
\* result, and no other step, the get commands and GetDeviceInfo included,
\* changes them
C11_GetReturnsCachedResult ==
    /\ []((Sending /\ CommandCode(rc.bytes) = CmdGetTransferInfo) =>
             snd.data = transferInfo)
    /\ []((Sending /\ CommandCode(rc.bytes) = CmdGetPeriodicInterruptInfo) =>
             snd.data = interruptInfo)
    /\ [][/\ transferInfo' # transferInfo =>
                pc = "ct_ret" /\ pc' = "rsm" /\ transferInfo' = ct.info
          /\ interruptInfo' # interruptInfo =>
                pc = "pi_ret" /\ pc' = "rsm" /\ interruptInfo' = pi.info
          /\ (pc = "ct_ret" /\ pc' = "rsm") => transferInfo' = ct.info
          /\ (pc = "pi_ret" /\ pc' = "rsm") => interruptInfo' = pi.info]_vars
    /\ [](mTrans = 0 => /\ transferInfo = DefaultTransferInfo
                        /\ interruptInfo = DefaultInterruptInfo)

C11_Witness ==
    /\ pc = "snd_waitcs"
    /\ CommandCode(rc.bytes) = CmdGetTransferInfo
    /\ snd.data.ElementCount = 1
    /\ snd.data # DefaultTransferInfo

\* the command codes RunStateMachine has a case for
KnownCommands ==
    {CmdGetDeviceInfo, CmdCaptureNextTransfer, CmdGetTransferInfo,
     CmdStartPeriodicInterrupts, CmdGetPeriodicInterruptInfo}

\* C12: a received command frame whose code is none of the five dispatched
\* ones is ignored: RunStateMachine returns without calling an engine or
\* SspSendImpl, writes nothing to the transmit FIFO and leaves the cached
\* results unchanged
C12_UnknownCommandIgnored ==
    [][(pc = "rc_done" /\ CommandCode(rc.bytes) \notin KnownCommands
           /\ pc' # pc) =>
          /\ pc' = "rsm"
          /\ snd' = NoSend
          /\ UNCHANGED <<txCount, transferInfo, interruptInfo>>]_vars

C12_Witness ==
    /\ pc = "rc_done"
    /\ Len(rc.bytes) = CommandBlockSize
    /\ CommandCode(rc.bytes) = CmdUnknown
    /\ snd = NoSend

\* C13: CaptureTransfer sets ClockActiveTime, to capture2 - capture1, only
\* when the status of the first capture is Success and the timer still
\* reads enabled after the transfer; otherwise ClockActiveTime keeps its
\* default and ClockActiveTimeStatus is Overflow or EdgeNotDetected
C13_ClockActiveTimeOnlyOnSuccess ==
    [][(pc = "ct_fin" /\ pc' = "ct_ret") =>
          IF ct.info.ClockActiveTimeStatus = StatusSuccess /\ tcr = "ENABLE"
          THEN /\ ct'.info.ClockActiveTimeStatus = StatusSuccess
               /\ ct'.info.ClockActiveTime = U32(cr0 - ct.capture1)
          ELSE /\ ct'.info.ClockActiveTime
                     = DefaultTransferInfo.ClockActiveTime
               /\ ct'.info.ClockActiveTimeStatus
                     \in {StatusOverflow, StatusEdgeNotDetected}]_vars

C13_Witness ==
    /\ pc = "ct_ret"
    /\ ct.info.ClockActiveTimeStatus = StatusOverflow
    /\ ct.info.ClockActiveTime = 0
    /\ ct.capture1 # cr0

\* the timestamp of the round is taken and the difference is not yet
\* computed
SnapshotOpen == pc \in {"pi_dis", "pi_rne", "pi_rcs"}

\* C14: in an acknowledgement round the timer interrupt handler does not
\* run between the read of the edge timestamp and the read of
\* remainingInterrupts for the difference
C14_ConsistentSnapshot ==
    [][SnapshotOpen => remainingInterrupts' = remainingInterrupts]_vars

\* an operation is under way and past its wait for chip-select, or a
\* round of the periodic-interrupt loop is under way
InOperation ==
    pc \in {"rc_loop", "rc_cs", "wcd_cs", "wcd_rne", "wcd_read",
            "snd_sr", "snd_cs",
            "wfc_rne", "wfc_cr0", "wfc_end", "ct_sr", "ct_cs", "ct_fin",
            "pi_wait", "pi_cap", "pi_dis", "pi_rne", "pi_rcs", "pi_sr",
            "pi_scs", "pi_next"}

\* the operation has returned, or the round is over
OperationOver ==
    pc \in {"rsm", "rc_fail", "rc_done", "snd_ret", "ct_ret", "pi_while",
            "pi_exit", "pi_teardown", "pi_ret", "pi_fin"}

\* C15: once the master has asserted chip-select (and, as it always does,
\* deasserts it again), the operation under way returns: SspSendImpl,
\* ReceiveCommand, CaptureTransfer with its WaitForCapture loop, and each
\* round of RunPeriodicInterrupts with its wait for an SCK falling edge
C15_OperationsTerminate == (InOperation /\ cs) ~> OperationOver

\* C16: the receive loop of CaptureTransfer is left only with chip-select
\* deasserted and the receive FIFO drained: no received element is left
\* unread at the exit of the loop, so that ElementCount, the number of
\* elements read, is the number of elements the master clocked in
C16_LoopExitDrained == pc = "ct_fin" => ~cs /\ rxFifo = <<>>

\* a periodic-interrupt session has armed remainingInterrupts and has not
\* returned
SessionArmed ==
    pc \in {"pi_while", "pi_dummy", "pi_wait", "pi_cap", "pi_dis", "pi_rne",
            "pi_rcs", "pi_sr", "pi_scs", "pi_next", "pi_fin", "pi_exit",
            "pi_teardown"}

\* C17: once a session has armed remainingInterrupts, only the timer
\* interrupt handler modifies it, each modification decreases it by one,
\* and the handler never runs while it is 0: the counter never increases
\* and never wraps, for every requested interrupt count including 0
C17_CounterOnlyDecrements ==
    [][(SessionArmed /\ remainingInterrupts' # remainingInterrupts)
          => /\ IrqReady
             /\ remainingInterrupts > 0
             /\ remainingInterrupts' = remainingInterrupts - 1]_vars

\* C18: in every state of a periodic-interrupt session
\* lastAckedInterruptCount >= remainingInterrupts, so the difference is
\* never negative and the classification never sets ArithmeticOverflow
C18_LastAckedBoundsRemaining ==
    SessionArmed =>
        /\ pi.lastAckedInterruptCount >= remainingInterrupts
        /\ ~pi.info.Status.ArithmeticOverflow

\* the session asked for interrupts and the handler has counted them down
CountedDown ==
    SessionArmed /\ pi.interruptCount > 0 /\ remainingInterrupts = 0

C20_AllInterruptsAcknowledged ==
    NormalReturn => pi.lastAckedInterruptCount = 0

\* C21: WaitForCapture returns Success, with the capture value, only if a
\* nonzero value was read from the capture register; in every other case,
\* also when the receive FIFO is non-empty on entry and the body of the
\* polling loop never runs, it returns EdgeNotDetected with the timer
\* counter
C21_SuccessOnlyOnCapture ==
    [][(pc = "wfc_end" /\ pc' = "ct_sr")
          => IF ct.captureSet /\ ct.capture # 0
             THEN /\ ct'.info.ClockActiveTimeStatus = StatusSuccess
                  /\ ct'.capture1 = ct.capture
             ELSE /\ ct'.info.ClockActiveTimeStatus = StatusEdgeNotDetected
                  /\ ct'.capture1 = tc]_vars

=============================================================================
